---- MODULE Spec2Model ----
(***************************************************************************)
(* The blob-delivery path of the registry: blobServer.ServeBlob and        *)
(* blobServer.ServeBlobContent (registry/storage/blobserver.go).           *)
(*                                                                         *)
(* One request is a small state machine whose position is pc[i]; every     *)
(* step is one collaborator call of the handler (pathFn, statter.Stat,     *)
(* driver.Stat, driver.URLFor, newFileReader) or one block of header       *)
(* writes, in the order of the code.  The storage driver's contents and    *)
(* the descriptor index are state fixed at construction; an I/O fault of   *)
(* a collaborator is a nondeterministic outcome of the call that meets it. *)
(***************************************************************************)
EXTENDS Integers, Sequences, FiniteSets, TLC

\* Longest Accept-Encoding list a request carries.
MaxAccept == 2

\* Request slots of the server.
Reqs == {1, 2}

\* ------------------------------------------------------------------ data

\* digest.Digest values a caller can supply: the canonical spelling of a
\* blob, an alternate digest of the same blob, and a malformed one.
Digests == {"sha256:aa", "sha512:aa", "invalid"}

\* The canonical digest under which the descriptor index files a digest.
Canonical(d) == IF d = "sha512:aa" THEN "sha256:aa" ELSE d

ErrBlobUnknown == "ErrBlobUnknown"
ErrDigestInvalidFormat == "ErrDigestInvalidFormat"
ErrUnsupportedMethod == "ErrUnsupportedMethod"
PathNotFoundError == "PathNotFoundError"
\* Errors a collaborator reports for an I/O fault.
BackendErrors == {"EIO", "ETIMEDOUT"}

Tokens == {"gzip", "zstd"}

\* The elements of an Accept-Encoding header as the client wrote them: a
\* token and an optional ";q=" parameter ("" when absent).
AcceptItems ==
    { [tok |-> "gzip", q |-> ""],
      [tok |-> "zstd", q |-> ""],
      [tok |-> "gzip", q |-> "0.5"] }

RECURSIVE SeqsUpTo(_, _)
SeqsUpTo(S, n) ==
    IF n = 0 THEN {<<>>}
    ELSE LET shorter == SeqsUpTo(S, n - 1)
         IN shorter \cup {Append(s, x) : s \in shorter, x \in S}

AcceptHeaders == SeqsUpTo(AcceptItems, MaxAccept)

\* header.ParseAccept(r.Header, "Accept-Encoding"): one AcceptSpec per
\* element, in header order, Q defaulting to 1.0 (in tenths); no sorting.
ParseQ(q) == IF q = "" THEN 10 ELSE IF q = "0.5" THEN 5 ELSE 0

ParseAccept(h) == [k \in 1..Len(h) |-> [Value |-> h[k].tok, Q |-> ParseQ(h[k].q)]]

\* fmt.Sprint of a size.
Sprint(n) == <<"0", "1", "2", "3", "4", "5", "6", "7", "8", "9">>[n + 1]

\* blobCacheControlMaxAge (365 * 24 * time.Hour) in seconds, as "%.f" prints it.
blobCacheControlMaxAge == "31536000"

\* ----------------------------------------------------------------- paths

\* "/"-separated segments of an encoding token.
Segments(v) ==
    IF v = "a/b" THEN <<"a", "b">>
    ELSE IF v = "x/../../y" THEN <<"x", "..", "..", "y">>
    ELSE <<v>>

RECURSIVE Clean(_, _)
Clean(acc, rest) ==
    IF rest = <<>> THEN acc
    ELSE LET h == Head(rest)
         IN IF h = "." \/ h = "" THEN Clean(acc, Tail(rest))
            ELSE IF h = ".."
                 THEN Clean(IF acc = <<>> THEN <<>>
                            ELSE SubSeq(acc, 1, Len(acc) - 1), Tail(rest))
                 ELSE Clean(Append(acc, h), Tail(rest))

\* filepath.Dir
Dir(p) == IF p = <<>> THEN <<>> ELSE SubSeq(p, 1, Len(p) - 1)

\* filepath.Join(filepath.Dir(path), "data."+enc.Value)
VariantPath(p, v) ==
    LET segs == Segments(v)
    IN Clean(<<>>, Dir(p) \o <<"data." \o Head(segs)>> \o Tail(segs))

\* bs.pathFn: the blob's data path, or an error for a malformed digest.
pathFn(d) ==
    IF d = "invalid"
    THEN [path |-> <<>>, err |-> ErrDigestInvalidFormat]
    ELSE [path |-> <<"blobs", d, "data">>, err |-> "nil"]

\* ------------------------------------------------------- collaborators

VARIABLES
    redirect,   \* bs.redirect
    statter,    \* bs.statter: the canonical digests the descriptor index links
    driver,     \* bs.driver: the files it holds, and whether it can make URLs
    r,          \* per request: the *http.Request (method and headers read)
    dgst,       \* per request: the digest argument
    outer,      \* per request: w.Header() as the outer layer left it
    w,          \* per request: the http.ResponseWriter (headers, status, body)
    pc,         \* per request: position in ServeBlob / ServeBlobContent
    accepted,   \* per request: ServeBlobContent's accepted
    idx,        \* per request: position of the range loop in accepted
    path,       \* per request: the local path
    desc,       \* per request: the local desc
    size,       \* per request: ServeBlobContent's size
    br,         \* per request: the file reader
    ret,        \* per request: what ServeBlob returned
    calls       \* per request: the collaborator calls made, in order

vars == <<redirect, statter, driver, r, dgst, outer, w, pc, accepted, idx,
          path, desc, size, br, ret, calls>>

ValidDigests == Digests \ {"invalid"}

NoDescriptor == [Digest |-> "", Size |-> 0, MediaType |-> ""]

\* The distribution.Descriptor the index holds for a canonical digest.
Descriptor(c) ==
    [Digest |-> c, Size |-> 5,
     MediaType |-> "application/vnd.oci.image.layer.v1.tar"]

\* bs.statter.Stat(ctx, dgst), fault aside.
StatterStat(d) ==
    IF d \in ValidDigests /\ Canonical(d) \in statter
    THEN [desc |-> Descriptor(Canonical(d)), err |-> "nil"]
    ELSE [desc |-> NoDescriptor, err |-> ErrBlobUnknown]

\* The size of a stored file, by its name.
FileSize(p) ==
    IF p = <<>> THEN 0
    ELSE IF p[Len(p)] = "data.gzip" THEN 3
    ELSE IF p[Len(p)] = "data.zstd" THEN 2
    ELSE 5

\* bs.driver.Stat(ctx, path), fault aside.
DriverStat(p) ==
    IF p \in driver.files
    THEN [size |-> FileSize(p), err |-> "nil"]
    ELSE [size |-> 0, err |-> PathNotFoundError]

\* bs.driver.URLFor(ctx, path, {"method": r.Method}), fault aside.
DriverURLFor(p, method) ==
    IF driver.urlFor
    THEN [url |-> "https://cdn/" \o p[2] \o "?method=" \o method, err |-> "nil"]
    ELSE [url |-> "", err |-> ErrUnsupportedMethod]

\* The files a store holds: for a set of tokens, the pre-compressed
\* sibling of every blob directory.
Stores ==
    { {VariantPath(pathFn(d).path, t) : d \in ValidDigests, t \in T} :
        T \in SUBSET Tokens }

\* ------------------------------------------------------------ net/http

HeaderNames ==
    {"ETag", "Cache-Control", "Docker-Content-Digest", "Content-Type",
     "Content-Length", "Content-Encoding", "Location", "Accept-Ranges"}

\* The three headers an outer layer may have set before ServeBlob runs.
OuterNames == {"Content-Type", "Content-Length", "Docker-Content-Digest"}

OuterValue(h) ==
    IF h = "Content-Type" THEN "text/plain"
    ELSE IF h = "Content-Length" THEN "9"
    ELSE "sha256:outer"

\* What the outer layer left: nothing, one of the three, or all three.
OuterHeaders ==
    { [h \in HeaderNames |-> IF h \in S THEN OuterValue(h) ELSE ""] :
        S \in {T \in SUBSET OuterNames : Cardinality(T) # 2} }

\* One write to the response body: a text, or the first n bytes of a file.
Text(t) == [text |-> t, file |-> <<>>, n |-> 0]
FileBytes(p, n) == [text |-> "", file |-> p, n |-> n]

\* w.Header().Set(k, v)
Set(wr, k, v) == [wr EXCEPT !.Header[k] = v]

\* http.Redirect(w, r, url, code): Location, then, when no Content-Type was
\* set, a text/html type for GET and HEAD and a short HTML note for GET.
Redirect(wr, rq, url, code) ==
    LET hadCT == wr.Header["Content-Type"] # ""
        typed == IF ~hadCT /\ rq.Method \in {"GET", "HEAD"}
                 THEN Set(Set(wr, "Location", url),
                          "Content-Type", "text/html; charset=utf-8")
                 ELSE Set(wr, "Location", url)
    IN [typed EXCEPT
          !.status = code,
          !.body = IF ~hadCT /\ rq.Method = "GET"
                   THEN Append(@, Text("<a href=\"" \o url \o "\">Temporary Redirect</a>."))
                   ELSE @]

\* http.ServeContent(w, r, name, time.Time{}, br): a request whose
\* If-None-Match matches the ETag header gets 304 and loses the entity
\* headers; any other gets 200, a Content-Length of the reader's size unless
\* Content-Encoding is set, and (but for HEAD) the n bytes read from br.
ServeContent(wr, rq, reader, n) ==
    IF rq.IfNoneMatch # "" /\ rq.IfNoneMatch = wr.Header["ETag"]
    THEN [Set(Set(Set(wr, "Content-Type", ""), "Content-Length", ""),
              "Content-Encoding", "")
            EXCEPT !.status = 304]
    ELSE LET ranged == Set(wr, "Accept-Ranges", "bytes")
             sized == IF wr.Header["Content-Encoding"] = ""
                      THEN Set(ranged, "Content-Length", Sprint(reader.size))
                      ELSE ranged
         IN [sized EXCEPT
               !.status = 200,
               !.body = IF rq.Method = "HEAD" \/ n = 0 THEN @
                        ELSE Append(@, FileBytes(reader.path, n))]

\* Whether ServeContent reads br at all.
ReadsBody(wr, rq) ==
    /\ ~(rq.IfNoneMatch # "" /\ rq.IfNoneMatch = wr.Header["ETag"])
    /\ rq.Method # "HEAD"

\* The byte counts a read of sz bytes can end with: all of them, or
\* fewer when the driver fails under it.
ReadOutcomes(sz) == {sz, sz - 1, 0}

NoReader == [state |-> "none", path |-> <<>>, size |-> 0]

\* newFileReader(ctx, bs.driver, path, size): the reader, or the fault e.
newFileReader(p, sz, e) ==
    IF e = "nil"
    THEN [br |-> [state |-> "open", path |-> p, size |-> sz], err |-> "nil"]
    ELSE [br |-> NoReader, err |-> e]

\* --------------------------------------------------------------- requests

Requests ==
    [Method : {"GET", "HEAD"},
     Compression : {"enabled", ""},
     AcceptEncoding : AcceptHeaders,
     IfNoneMatch : {"", "\"sha256:aa\""}]

IdleRequest ==
    [Method |-> "GET", Compression |-> "", AcceptEncoding |-> <<>>,
     IfNoneMatch |-> ""]

NoHeaders == [h \in HeaderNames |-> ""]

Call(op, d, p, e) == [op |-> op, dgst |-> d, path |-> p, err |-> e]

\* The server as constructed, with the requests in `active` about to run.
InitWith(active) ==
    /\ redirect \in BOOLEAN
    /\ statter \in SUBSET {"sha256:aa"}
    /\ driver \in [files : Stores, urlFor : BOOLEAN]
    /\ \E rr \in [active -> Requests] :
          r = [i \in Reqs |-> IF i \in active THEN rr[i] ELSE IdleRequest]
    /\ \E dd \in [active -> Digests] :
          dgst = [i \in Reqs |-> IF i \in active THEN dd[i] ELSE "invalid"]
    /\ \E oo \in [active -> OuterHeaders] :
          outer = [i \in Reqs |-> IF i \in active THEN oo[i] ELSE NoHeaders]
    /\ w = [i \in Reqs |-> [Header |-> outer[i], status |-> 0, body |-> <<>>]]
    /\ pc = [i \in Reqs |-> IF i \in active THEN "ServeBlob" ELSE "idle"]
    /\ accepted = [i \in Reqs |-> <<>>]
    /\ idx = [i \in Reqs |-> 0]
    /\ path = [i \in Reqs |-> <<>>]
    /\ desc = [i \in Reqs |-> NoDescriptor]
    /\ size = [i \in Reqs |-> 0]
    /\ br = [i \in Reqs |-> NoReader]
    /\ ret = [i \in Reqs |-> "pending"]
    /\ calls = [i \in Reqs |-> <<>>]

Init == InitWith({1})

\* ---------------------------------------------------------------- steps

Outcomes == BackendErrors \cup {"nil"}

Goto(i, l) == pc' = [pc EXCEPT ![i] = l]

Return(i, e) == ret' = [ret EXCEPT ![i] = e] /\ Goto(i, "done")

Log(i, c) == calls' = [calls EXCEPT ![i] = Append(@, c)]

\* Mutant of Closed: the reader is left open.
ClosedNever(reader) == reader

\* br.Close(), deferred to the return.
Closed(reader) == [reader EXCEPT !.state = "closed"]

\* Mutants of StatOutcome: a missing sibling is served; a failed stat is
\* skipped like a missing sibling.
StatNotFoundServes(err) ==
    IF err = "nil" \/ err = PathNotFoundError THEN "serve" ELSE "abort"

StatErrorContinues(err) ==
    IF err = "nil" THEN "serve" ELSE "continue"

\* What the range loop does with the error of driver.Stat.
StatOutcome(err) ==
    IF err = "nil" THEN "serve"
    ELSE IF err = PathNotFoundError THEN "continue"
    ELSE "abort"

\* Mutants of URLForOutcome: a URL is never used; an unsupported method
\* aborts; an unexpected error falls back to streaming.
URLForNeverRedirects(err) ==
    IF err = "nil" \/ err = ErrUnsupportedMethod THEN "fallback" ELSE "abort"

URLForUnsupportedAborts(err) ==
    IF err = "nil" THEN "redirect" ELSE "abort"

URLForErrorFallsBack(err) ==
    IF err = "nil" THEN "redirect" ELSE "fallback"

\* What ServeBlob does with the error of driver.URLFor.
URLForOutcome(err) ==
    IF err = "nil" THEN "redirect"
    ELSE IF err = ErrUnsupportedMethod THEN "fallback"
    ELSE "abort"

\* Mutant of VariantHeaders: Content-Length is set only when it is empty.
VariantHeadersKeepLength(wr, d, sz, enc) ==
    LET lengthKept == IF wr.Header["Content-Length"] = ""
                      THEN Set(wr, "Content-Length", Sprint(sz)) ELSE wr
    IN Set(Set(Set(Set(lengthKept,
        "ETag", d),
        "Cache-Control", "max-age=" \o blobCacheControlMaxAge),
        "Content-Type", "application/octet-stream"),
        "Content-Encoding", enc.Value)

\* The headers ServeBlobContent sets before it serves a variant.
VariantHeaders(wr, d, sz, enc) ==
    Set(Set(Set(Set(Set(wr,
        "ETag", d),
        "Cache-Control", "max-age=" \o blobCacheControlMaxAge),
        "Content-Type", "application/octet-stream"),
        "Content-Length", Sprint(sz)),
        "Content-Encoding", enc.Value)

\* w.Header().Set(k, v) when w.Header().Get(k) == ""
SetIfEmpty(wr, k, v) == IF wr.Header[k] = "" THEN Set(wr, k, v) ELSE wr

\* The headers ServeBlob sets before it serves the blob.
BlobHeaders(wr, d) ==
    SetIfEmpty(SetIfEmpty(SetIfEmpty(Set(Set(wr,
        "ETag", "\"" \o d.Digest \o "\""),
        "Cache-Control", "max-age=" \o blobCacheControlMaxAge),
        "Docker-Content-Digest", d.Digest),
        "Content-Type", d.MediaType),
        "Content-Length", Sprint(d.Size))

\* ServeBlob, to the call of the negotiator or of the descriptor lookup.
\* Mutant of Enter: the negotiator runs for every request.
EnterAlwaysNegotiates(i) ==
    /\ pc[i] = "ServeBlob"
    /\ Goto(i, "ServeBlobContent")
    /\ UNCHANGED <<redirect, statter, driver, r, dgst, outer, w, accepted,
                   idx, path, desc, size, br, ret, calls>>

\* ServeBlob, to the negotiator when the request opts in, else to the lookup.
Enter(i) ==
    /\ pc[i] = "ServeBlob"
    /\ Goto(i, IF r[i].Compression = "enabled"
               THEN "ServeBlobContent" ELSE "statter.Stat")
    /\ UNCHANGED <<redirect, statter, driver, r, dgst, outer, w, accepted,
                   idx, path, desc, size, br, ret, calls>>

\* ServeBlobContent, to the head of its range loop.
Negotiate(i) ==
    /\ pc[i] = "ServeBlobContent"
    /\ LET p == pathFn(dgst[i])
       IN /\ Log(i, Call("pathFn", dgst[i], p.path, p.err))
          /\ IF p.err # "nil"
             THEN /\ Return(i, p.err)
                  /\ UNCHANGED <<path, accepted, idx>>
             ELSE /\ path' = [path EXCEPT ![i] = p.path]
                  /\ accepted' = [accepted EXCEPT
                                    ![i] = ParseAccept(r[i].AcceptEncoding)]
                  /\ idx' = [idx EXCEPT ![i] = 1]
                  /\ Goto(i, "range")
                  /\ UNCHANGED ret
    /\ UNCHANGED <<redirect, statter, driver, r, dgst, outer, w, desc, size, br>>

\* Mutant of Range: a candidate that is not found is tried again.
RangeRetries(i) ==
    /\ pc[i] = "range"
    /\ idx[i] <= Len(accepted[i])
    /\ \E e \in Outcomes :
         LET enc == accepted[i][idx[i]]
             p == VariantPath(path[i], enc.Value)
             st == IF e = "nil" THEN DriverStat(p) ELSE [size |-> 0, err |-> e]
             todo == StatOutcome(st.err)
         IN /\ path' = [path EXCEPT ![i] = p]
            /\ Log(i, Call("driver.Stat", "", p, st.err))
            /\ IF todo = "serve"
               THEN /\ size' = [size EXCEPT ![i] = st.size]
                    /\ Goto(i, "variant.newFileReader")
                    /\ UNCHANGED <<idx, ret>>
               ELSE IF todo = "continue"
               THEN UNCHANGED <<idx, size, pc, ret>>
               ELSE /\ Return(i, st.err)
                    /\ UNCHANGED <<size, idx>>
    /\ UNCHANGED <<redirect, statter, driver, r, dgst, outer, w, accepted,
                   desc, br>>

\* One turn of the range loop: the candidate's path and its driver.Stat.
Range(i) ==
    /\ pc[i] = "range"
    /\ idx[i] <= Len(accepted[i])
    /\ \E e \in Outcomes :
         LET enc == accepted[i][idx[i]]
             p == VariantPath(path[i], enc.Value)
             st == IF e = "nil" THEN DriverStat(p) ELSE [size |-> 0, err |-> e]
             todo == StatOutcome(st.err)
         IN /\ path' = [path EXCEPT ![i] = p]
            /\ Log(i, Call("driver.Stat", "", p, st.err))
            /\ IF todo = "serve"
               THEN /\ size' = [size EXCEPT ![i] = st.size]
                    /\ Goto(i, "variant.newFileReader")
                    /\ UNCHANGED <<idx, ret>>
               ELSE IF todo = "continue"
               THEN /\ idx' = [idx EXCEPT ![i] = @ + 1]
                    /\ UNCHANGED <<size, pc, ret>>
               ELSE /\ Return(i, st.err)
                    /\ UNCHANGED <<size, idx>>
    /\ UNCHANGED <<redirect, statter, driver, r, dgst, outer, w, accepted,
                   desc, br>>

\* The range loop ends with no candidate: (false, nil), ServeBlob goes on.
NoMatch(i) ==
    /\ pc[i] = "range"
    /\ idx[i] > Len(accepted[i])
    /\ Goto(i, "statter.Stat")
    /\ UNCHANGED <<redirect, statter, driver, r, dgst, outer, w, accepted,
                   idx, path, desc, size, br, ret, calls>>

\* ServeBlobContent opens the reader of the variant.
OpenVariant(i) ==
    /\ pc[i] = "variant.newFileReader"
    /\ \E e \in Outcomes :
         LET o == newFileReader(path[i], size[i], e)
         IN /\ Log(i, Call("newFileReader", "", path[i], o.err))
            /\ IF o.err # "nil"
               THEN /\ Return(i, o.err)
                    /\ UNCHANGED br
               ELSE /\ br' = [br EXCEPT ![i] = o.br]
                    /\ Goto(i, "variant.headers")
                    /\ UNCHANGED ret
    /\ UNCHANGED <<redirect, statter, driver, r, dgst, outer, w, accepted,
                   idx, path, desc, size>>

\* ServeBlobContent sets the headers of the variant.
SetVariantHeaders(i) ==
    /\ pc[i] = "variant.headers"
    /\ w' = [w EXCEPT ![i] = VariantHeaders(@, dgst[i], size[i],
                                            accepted[i][idx[i]])]
    /\ Goto(i, "variant.ServeContent")
    /\ UNCHANGED <<redirect, statter, driver, r, dgst, outer, accepted, idx,
                   path, desc, size, br, ret, calls>>

\* Mutant of ServeVariant: serving a variant removes it from the store.
ServeVariantConsumes(i) ==
    /\ pc[i] = "variant.ServeContent"
    /\ \E n \in (IF ReadsBody(w[i], r[i]) THEN ReadOutcomes(br[i].size) ELSE {0}) :
         w' = [w EXCEPT ![i] = ServeContent(@, r[i], br[i], n)]
    /\ Log(i, Call("http.ServeContent", dgst[i], br[i].path, "nil"))
    /\ br' = [br EXCEPT ![i] = Closed(@)]
    /\ driver' = [driver EXCEPT !.files = @ \ {br[i].path}]
    /\ Return(i, "nil")
    /\ UNCHANGED <<redirect, statter, r, dgst, outer, accepted, idx,
                   path, desc, size>>

\* ServeBlobContent serves the variant, closes the reader and returns
\* (true, nil), which ServeBlob returns as nil.
ServeVariant(i) ==
    /\ pc[i] = "variant.ServeContent"
    /\ \E n \in (IF ReadsBody(w[i], r[i]) THEN ReadOutcomes(br[i].size) ELSE {0}) :
         w' = [w EXCEPT ![i] = ServeContent(@, r[i], br[i], n)]
    /\ Log(i, Call("http.ServeContent", dgst[i], br[i].path, "nil"))
    /\ br' = [br EXCEPT ![i] = Closed(@)]
    /\ Return(i, "nil")
    /\ UNCHANGED <<redirect, statter, driver, r, dgst, outer, accepted, idx,
                   path, desc, size>>

ServeBlobContent(i) ==
    \/ Negotiate(i)
    \/ Range(i)
    \/ NoMatch(i)
    \/ OpenVariant(i)
    \/ SetVariantHeaders(i)
    \/ ServeVariant(i)

\* http.StatusTemporaryRedirect
StatusTemporaryRedirect == 307

\* ServeBlob looks the descriptor up.
Lookup(i) ==
    /\ pc[i] = "statter.Stat"
    /\ \E e \in Outcomes :
         LET o == IF e = "nil" THEN StatterStat(dgst[i])
                  ELSE [desc |-> NoDescriptor, err |-> e]
         IN /\ Log(i, Call("statter.Stat", dgst[i], <<>>, o.err))
            /\ IF o.err # "nil"
               THEN /\ Return(i, o.err)
                    /\ UNCHANGED desc
               ELSE /\ desc' = [desc EXCEPT ![i] = o.desc]
                    /\ Goto(i, "pathFn")
                    /\ UNCHANGED ret
    /\ UNCHANGED <<redirect, statter, driver, r, dgst, outer, w, accepted,
                   idx, path, size, br>>

\* ServeBlob resolves the path of the descriptor's digest.
ResolvePath(i) ==
    /\ pc[i] = "pathFn"
    /\ LET p == pathFn(desc[i].Digest)
       IN /\ Log(i, Call("pathFn", desc[i].Digest, p.path, p.err))
          /\ IF p.err # "nil"
             THEN /\ Return(i, p.err)
                  /\ UNCHANGED path
             ELSE /\ path' = [path EXCEPT ![i] = p.path]
                  /\ Goto(i, IF redirect THEN "driver.URLFor"
                             ELSE "newFileReader")
                  /\ UNCHANGED ret
    /\ UNCHANGED <<redirect, statter, driver, r, dgst, outer, w, accepted,
                   idx, desc, size, br>>

\* ServeBlob, redirect enabled, asks the driver for a URL.
RedirectAttempt(i) ==
    /\ pc[i] = "driver.URLFor"
    /\ \E e \in Outcomes :
         LET o == IF e = "nil" THEN DriverURLFor(path[i], r[i].Method)
                  ELSE [url |-> "", err |-> e]
             todo == URLForOutcome(o.err)
         IN /\ Log(i, Call("driver.URLFor", "", path[i], o.err))
            /\ IF todo = "redirect"
               THEN /\ w' = [w EXCEPT ![i] = Redirect(@, r[i], o.url,
                                                     StatusTemporaryRedirect)]
                    /\ Return(i, o.err)
               ELSE IF todo = "fallback"
               THEN /\ Goto(i, "newFileReader")
                    /\ UNCHANGED <<w, ret>>
               ELSE /\ Return(i, o.err)
                    /\ UNCHANGED w
    /\ UNCHANGED <<redirect, statter, driver, r, dgst, outer, accepted, idx,
                   path, desc, size, br>>

\* Mutant of Open: the headers of the blob are set before the reader is
\* opened.
OpenAfterHeaders(i) ==
    /\ pc[i] = "newFileReader"
    /\ \E e \in Outcomes :
         LET o == newFileReader(path[i], desc[i].Size, e)
         IN /\ Log(i, Call("newFileReader", "", path[i], o.err))
            /\ w' = [w EXCEPT ![i] = BlobHeaders(@, desc[i])]
            /\ IF o.err # "nil"
               THEN /\ Return(i, o.err)
                    /\ UNCHANGED br
               ELSE /\ br' = [br EXCEPT ![i] = o.br]
                    /\ Goto(i, "headers")
                    /\ UNCHANGED ret
    /\ UNCHANGED <<redirect, statter, driver, r, dgst, outer, accepted,
                   idx, path, desc, size>>

\* ServeBlob opens the reader of the blob.
Open(i) ==
    /\ pc[i] = "newFileReader"
    /\ \E e \in Outcomes :
         LET o == newFileReader(path[i], desc[i].Size, e)
         IN /\ Log(i, Call("newFileReader", "", path[i], o.err))
            /\ IF o.err # "nil"
               THEN /\ Return(i, o.err)
                    /\ UNCHANGED br
               ELSE /\ br' = [br EXCEPT ![i] = o.br]
                    /\ Goto(i, "headers")
                    /\ UNCHANGED ret
    /\ UNCHANGED <<redirect, statter, driver, r, dgst, outer, w, accepted,
                   idx, path, desc, size>>

\* ServeBlob sets the headers of the blob.
SetBlobHeaders(i) ==
    /\ pc[i] = "headers"
    /\ w' = [w EXCEPT ![i] = BlobHeaders(@, desc[i])]
    /\ Goto(i, "ServeContent")
    /\ UNCHANGED <<redirect, statter, driver, r, dgst, outer, accepted, idx,
                   path, desc, size, br, ret, calls>>

\* Mutant of Serve: the return closes the reader of every request.
ServeClosesAll(i) ==
    /\ pc[i] = "ServeContent"
    /\ \E n \in (IF ReadsBody(w[i], r[i]) THEN ReadOutcomes(br[i].size) ELSE {0}) :
         w' = [w EXCEPT ![i] = ServeContent(@, r[i], br[i], n)]
    /\ Log(i, Call("http.ServeContent", desc[i].Digest, br[i].path, "nil"))
    /\ br' = [j \in Reqs |-> IF br[j].state = "open" THEN Closed(br[j]) ELSE br[j]]
    /\ Return(i, "nil")
    /\ UNCHANGED <<redirect, statter, driver, r, dgst, outer, accepted, idx,
                   path, desc, size>>

\* ServeBlob serves the blob, closes the reader and returns nil.
Serve(i) ==
    /\ pc[i] = "ServeContent"
    /\ \E n \in (IF ReadsBody(w[i], r[i]) THEN ReadOutcomes(br[i].size) ELSE {0}) :
         w' = [w EXCEPT ![i] = ServeContent(@, r[i], br[i], n)]
    /\ Log(i, Call("http.ServeContent", desc[i].Digest, br[i].path, "nil"))
    /\ br' = [br EXCEPT ![i] = Closed(@)]
    /\ Return(i, "nil")
    /\ UNCHANGED <<redirect, statter, driver, r, dgst, outer, accepted, idx,
                   path, desc, size>>

ServeBlob(i) ==
    \/ Enter(i)
    \/ ServeBlobContent(i)
    \/ Lookup(i)
    \/ ResolvePath(i)
    \/ RedirectAttempt(i)
    \/ Open(i)
    \/ SetBlobHeaders(i)
    \/ Serve(i)

Next == \E i \in Reqs : ServeBlob(i)

Spec == Init /\ [][Next]_vars

\* Two requests for the same digest served by one blobServer, in any
\* interleaving, sequential ones included: GET requests with or without the
\* opt-in header, with an empty Accept-Encoding or with "gzip".
PairRequests ==
    {q \in Requests :
        /\ q.Method = "GET"
        /\ q.IfNoneMatch = ""
        /\ q.AcceptEncoding \in {<<>>, <<[tok |-> "gzip", q |-> ""]>>}}

InitPair ==
    /\ redirect \in BOOLEAN
    /\ statter \in SUBSET {"sha256:aa"}
    /\ driver \in [files : {f \in Stores : Cardinality(f) <= Cardinality(ValidDigests)},
                    urlFor : BOOLEAN]
    /\ r \in [Reqs -> PairRequests]
    /\ \E d \in Digests : dgst = [i \in Reqs |-> d]
    /\ outer = [i \in Reqs |-> NoHeaders]
    /\ w = [i \in Reqs |-> [Header |-> outer[i], status |-> 0, body |-> <<>>]]
    /\ pc = [i \in Reqs |-> "ServeBlob"]
    /\ accepted = [i \in Reqs |-> <<>>]
    /\ idx = [i \in Reqs |-> 0]
    /\ path = [i \in Reqs |-> <<>>]
    /\ desc = [i \in Reqs |-> NoDescriptor]
    /\ size = [i \in Reqs |-> 0]
    /\ br = [i \in Reqs |-> NoReader]
    /\ ret = [i \in Reqs |-> "pending"]
    /\ calls = [i \in Reqs |-> <<>>]

SpecPair == InitPair /\ [][Next]_vars

\* One opt-in request whose Accept-Encoding holds tokens with "/" and ".."
\* segments, which header.ParseAccept lets through; the store may hold a
\* file outside every blob directory.
PathItems ==
    { [tok |-> "gzip", q |-> ""],
      [tok |-> "a/b", q |-> ""],
      [tok |-> "x/../../y", q |-> ""] }

PathHeaders == SeqsUpTo(PathItems, MaxAccept)

InitPaths ==
    /\ redirect \in BOOLEAN
    /\ statter \in SUBSET {"sha256:aa"}
    /\ driver \in [files : {{}, {<<"blobs", "y">>},
                             {VariantPath(pathFn(d).path, "gzip") : d \in ValidDigests}},
                    urlFor : BOOLEAN]
    /\ \E h \in PathHeaders :
          r = [i \in Reqs |->
                 IF i = 1
                 THEN [Method |-> "GET", Compression |-> "enabled",
                       AcceptEncoding |-> h, IfNoneMatch |-> ""]
                 ELSE IdleRequest]
    /\ \E d \in Digests : dgst = [i \in Reqs |-> IF i = 1 THEN d ELSE "invalid"]
    /\ outer = [i \in Reqs |-> NoHeaders]
    /\ w = [i \in Reqs |-> [Header |-> outer[i], status |-> 0, body |-> <<>>]]
    /\ pc = [i \in Reqs |-> IF i = 1 THEN "ServeBlob" ELSE "idle"]
    /\ accepted = [i \in Reqs |-> <<>>]
    /\ idx = [i \in Reqs |-> 0]
    /\ path = [i \in Reqs |-> <<>>]
    /\ desc = [i \in Reqs |-> NoDescriptor]
    /\ size = [i \in Reqs |-> 0]
    /\ br = [i \in Reqs |-> NoReader]
    /\ ret = [i \in Reqs |-> "pending"]
    /\ calls = [i \in Reqs |-> <<>>]

SpecPaths == InitPaths /\ [][Next]_vars

\* --------------------------------------------------------------- claims

Done(i) == pc[i] = "done"

\* The calls of request i to op that ended with err.
CallsOf(i, op, err) ==
    {k \in DOMAIN calls[i] : calls[i][k].op = op /\ calls[i][k].err = err}

\* The calls of request i to op.
CallsTo(i, op) == {k \in DOMAIN calls[i] : calls[i][k].op = op}

\* The response as the outer layer handed it over.
Untouched(i) ==
    /\ w[i].Header = outer[i]
    /\ w[i].status = 0
    /\ w[i].body = <<>>

NoBlobBytes(i) == \A k \in DOMAIN w[i].body : w[i].body[k].file = <<>>

\* The URL the driver makes for the canonical path of request i.
CanonicalURL(i) ==
    "https://cdn/" \o Canonical(dgst[i]) \o "?method=" \o r[i].Method

\* Request i got a URL from driver.URLFor and has returned.
Redirected(i) == Done(i) /\ CallsOf(i, "driver.URLFor", "nil") # {}

FellBack(i) == Done(i) /\ CallsOf(i, "driver.URLFor", ErrUnsupportedMethod) # {}

\* ServeContent answered request i with the whole blob, read to its end.
StreamedBlob(i) ==
    w[i].body = <<FileBytes(pathFn(Canonical(dgst[i])).path, desc[i].Size)>>

\* C2 as stated: when driver.URLFor reports ErrUnsupportedMethod, ServeBlob
\* never returns that error and never redirects, and the response it
\* completes is a streamed body with status 200.
C2_FallbackStatus200 ==
    \A i \in Reqs :
        FellBack(i) =>
            /\ ret[i] # ErrUnsupportedMethod
            /\ w[i].status # StatusTemporaryRedirect
            /\ w[i].Header["Location"] = ""
            /\ ret[i] = "nil" => w[i].status = 200

\* C2 amended: when driver.URLFor reports ErrUnsupportedMethod, ServeBlob
\* goes on to open the reader of the canonical path; it never returns
\* ErrUnsupportedMethod and never redirects; the response it completes is
\* the one http.ServeContent chooses over that reader: 304 without a body
\* when If-None-Match matches the ETag, otherwise 200, with no body for
\* HEAD and the blob's bytes, as far as they could be read, for GET.
C2_Fallback ==
    \A i \in Reqs :
        FellBack(i) =>
            /\ ret[i] # ErrUnsupportedMethod
            /\ w[i].status # StatusTemporaryRedirect
            /\ w[i].Header["Location"] = ""
            /\ CallsTo(i, "newFileReader") # {}
            /\ ret[i] \in BackendErrors \cup {"nil"}
            /\ ret[i] \in BackendErrors =>
                   /\ CallsOf(i, "newFileReader", ret[i]) # {}
                   /\ Untouched(i)
            /\ ret[i] = "nil" =>
                   /\ br[i].path = pathFn(Canonical(dgst[i])).path
                   /\ CallsTo(i, "http.ServeContent") # {}
                   /\ IF r[i].IfNoneMatch = "\"" \o desc[i].Digest \o "\""
                      THEN w[i].status = 304 /\ w[i].body = <<>>
                      ELSE /\ w[i].status = 200
                           /\ r[i].Method = "HEAD" => w[i].body = <<>>
                           /\ NoBlobBytes(i) \/ w[i].body[1].file = br[i].path

C2_Witness ==
    \E i \in Reqs :
        /\ FellBack(i)
        /\ ret[i] = "nil"
        /\ w[i].status = 200
        /\ StreamedBlob(i)

\* Request i has returned after driver.URLFor failed with an error that is
\* not ErrUnsupportedMethod.
URLForFailed(i) ==
    /\ Done(i)
    /\ \E k \in CallsTo(i, "driver.URLFor") : calls[i][k].err \in BackendErrors

\* C3: when driver.URLFor fails with an error other than
\* ErrUnsupportedMethod, ServeBlob returns that error; nothing is written to
\* the response, no reader is opened and streaming is not attempted.
C3_URLForErrorAborts ==
    \A i \in Reqs :
        URLForFailed(i) =>
            /\ ret[i] = calls[i][Len(calls[i])].err
            /\ calls[i][Len(calls[i])].op = "driver.URLFor"
            /\ Untouched(i)
            /\ br[i].state = "none"
            /\ CallsTo(i, "newFileReader") = {}
            /\ CallsTo(i, "http.ServeContent") = {}

C3_Witness ==
    \E i \in Reqs : URLForFailed(i) /\ ret[i] = "ETIMEDOUT"

\* The digest of request i is well-formed and the descriptor index does
\* not link it.
Absent(i) == dgst[i] \in ValidDigests /\ Canonical(dgst[i]) \notin statter

\* C4: a request for a digest absent from the descriptor index gets
\* ErrBlobUnknown (a collaborator's fault aside), with no header written and
\* no reader opened, opt-in to transport compression or not.
C4_AbsentDigestNotFound ==
    \A i \in Reqs :
        (Done(i) /\ Absent(i) /\ ret[i] \notin BackendErrors) =>
            /\ ret[i] = ErrBlobUnknown
            /\ Untouched(i)
            /\ br[i].state = "none"
            /\ CallsTo(i, "newFileReader") = {}

\* The sibling of the k-th accepted encoding of request i, beside the data
\* file of its digest.
Sibling(i, k) == VariantPath(pathFn(dgst[i]).path, accepted[i][k].Value)

Exists(i, k) == Sibling(i, k) \in driver.files

\* Request i is in ServeBlobContent with the variant's headers set.
VariantChosen(i) == pc[i] = "variant.ServeContent"

\* Request i has been served a variant by ServeBlobContent.
VariantServed(i) ==
    Done(i) /\ desc[i] = NoDescriptor /\ CallsTo(i, "http.ServeContent") # {}

C6_HighestWeightServed ==
    \A i \in Reqs :
        VariantChosen(i) =>
            \A k \in 1..Len(accepted[i]) :
                Exists(i, k) => accepted[i][k].Q <= accepted[i][idx[i]].Q

\* C7: a driver.Stat of a candidate that fails with an error other than
\* PathNotFoundError is the last call of the request: ServeBlob returns
\* that error, with no later candidate tried, no descriptor lookup, no
\* reader and nothing written.
C7_StatErrorAborts ==
    \A i \in Reqs :
        \A k \in CallsTo(i, "driver.Stat") :
            calls[i][k].err \in BackendErrors =>
                /\ k = Len(calls[i])
                /\ Done(i)
                /\ ret[i] = calls[i][k].err
                /\ CallsTo(i, "statter.Stat") = {}
                /\ CallsTo(i, "newFileReader") = {}
                /\ br[i].state = "none"
                /\ Untouched(i)

C7_Witness ==
    \E i \in Reqs :
        /\ Done(i)
        /\ ret[i] = "EIO"
        /\ CallsOf(i, "driver.Stat", "EIO") # {}
        /\ idx[i] = 1
        /\ Len(accepted[i]) = 2

\* C8: once ServeBlob or ServeBlobContent has set its headers, a
\* Content-Type, Content-Length or Docker-Content-Digest the outer layer
\* had set still has the outer layer's value.
C8_OuterHeadersKept ==
    \A i \in Reqs :
        pc[i] \in {"ServeContent", "variant.ServeContent"} =>
            \A h \in OuterNames :
                outer[i][h] # "" => w[i].Header[h] = outer[i][h]

\* C9: an ETag set on the response, and the identity handed to
\* http.ServeContent, are the canonical digest of the descriptor, not the
\* digest string the caller supplied.
C9_CanonicalIdentity ==
    \A i \in Reqs :
        /\ w[i].Header["ETag"] # "" =>
              w[i].Header["ETag"] \in
                  {Canonical(dgst[i]), "\"" \o Canonical(dgst[i]) \o "\""}
        /\ \A k \in CallsTo(i, "http.ServeContent") :
              calls[i][k].dgst = Canonical(dgst[i])

\* The place of a call in the order lookup, path resolution, redirect
\* attempt, streaming.
Rank(op) ==
    IF op = "statter.Stat" THEN 1
    ELSE IF op = "pathFn" THEN 2
    ELSE IF op = "driver.URLFor" THEN 3
    ELSE IF op = "newFileReader" THEN 4
    ELSE IF op = "http.ServeContent" THEN 5
    ELSE 0

\* C10: the calls from the descriptor lookup on follow the order lookup,
\* path resolution, redirect attempt, streaming; and no driver.Stat, no
\* reader and no byte of body comes before a descriptor lookup that
\* succeeded.
C10_LookupFirst ==
    \A i \in Reqs :
        /\ \A j, k \in DOMAIN calls[i] :
              (j < k /\ calls[i][j].op = "statter.Stat") =>
                  Rank(calls[i][j].op) < Rank(calls[i][k].op)
        /\ \A k \in DOMAIN calls[i] :
              calls[i][k].op \in {"driver.Stat", "newFileReader",
                                  "http.ServeContent"} =>
                  \E j \in 1..(k - 1) :
                      /\ calls[i][j].op = "statter.Stat"
                      /\ calls[i][j].err = "nil"
        /\ ~NoBlobBytes(i) => CallsOf(i, "statter.Stat", "nil") # {}

\* http.ServeContent answered request i with status 200.
Streamed(i) ==
    Done(i) /\ CallsTo(i, "http.ServeContent") # {} /\ w[i].status = 200

ReadFailed(i) ==
    /\ Streamed(i)
    /\ r[i].Method = "GET"
    /\ w[i].body # <<FileBytes(br[i].path, br[i].size)>>

\* The errors ServeBlob recovers from: ErrUnsupportedMethod of
\* driver.URLFor, PathNotFoundError of driver.Stat.
Recovered(c) ==
    \/ c.op = "driver.URLFor" /\ c.err = ErrUnsupportedMethod
    \/ c.op = "driver.Stat" /\ c.err = PathNotFoundError

\* C13: an error of a collaborator that is not one of the two recovered
\* ones ends the request and is what ServeBlob returns, unchanged; and
\* ServeBlob does not return nil when a read of the body failed.
C13_ErrorsPropagate ==
    \A i \in Reqs :
        /\ \A k \in DOMAIN calls[i] :
              (calls[i][k].err # "nil" /\ ~Recovered(calls[i][k])) =>
                  /\ k = Len(calls[i])
                  /\ Done(i)
                  /\ ret[i] = calls[i][k].err
        /\ ReadFailed(i) => ret[i] # "nil"

\* C15: when ServeBlob has returned no reader is open, and a request
\* opens at most one reader.
C15_ReaderClosed ==
    \A i \in Reqs :
        /\ Done(i) => br[i].state # "open"
        /\ (Done(i) /\ CallsOf(i, "newFileReader", "nil") # {}) =>
              br[i].state = "closed"
        /\ Cardinality(CallsTo(i, "newFileReader")) <= 1
        /\ br[i].state = "none" <=> CallsOf(i, "newFileReader", "nil") = {}

C15_Witness ==
    \E i \in Reqs :
        /\ Done(i)
        /\ br[i].state = "closed"
        /\ ReadFailed(i)
        /\ desc[i] = NoDescriptor

\* The calls of request i that are I/O: the descriptor lookup and every
\* call of the storage driver.
IOCalls(i) ==
    {k \in DOMAIN calls[i] :
        calls[i][k].op \in {"statter.Stat", "driver.Stat", "driver.URLFor",
                            "newFileReader", "http.ServeContent"}}

\* C17: a request for a malformed digest makes no descriptor lookup and no
\* call of the storage driver, opt-in to transport compression or not.
C17_InvalidDigestNoIO ==
    \A i \in Reqs :
        pathFn(dgst[i]).err = ErrDigestInvalidFormat => IOCalls(i) = {}

\* C19: when ServeBlob has returned an error, no header, status or body
\* byte has been written and no reader was opened.
C19_ErrorLeavesResponse ==
    \A i \in Reqs :
        (Done(i) /\ ret[i] # "nil") =>
            /\ Untouched(i)
            /\ br[i].state = "none"

C19_Witness ==
    \E i \in Reqs :
        /\ Done(i)
        /\ ret[i] = "EIO"
        /\ CallsOf(i, "newFileReader", "EIO") # {}
        /\ desc[i] # NoDescriptor

\* The place of a step of ServeBlob in the order of the code.
Stage(l) ==
    IF l = "idle" THEN 0
    ELSE IF l = "ServeBlob" THEN 1
    ELSE IF l = "ServeBlobContent" THEN 2
    ELSE IF l = "range" THEN 3
    ELSE IF l = "variant.newFileReader" THEN 4
    ELSE IF l = "variant.headers" THEN 5
    ELSE IF l = "variant.ServeContent" THEN 6
    ELSE IF l = "statter.Stat" THEN 7
    ELSE IF l = "pathFn" THEN 8
    ELSE IF l = "driver.URLFor" THEN 9
    ELSE IF l = "newFileReader" THEN 10
    ELSE IF l = "headers" THEN 11
    ELSE IF l = "ServeContent" THEN 12
    ELSE 13

\* Request i has moved forward: to a later step, or to the next entry of
\* the range loop.
Forward(i) ==
    \/ Stage(pc[i]') > Stage(pc[i])
    \/ pc[i]' = pc[i] /\ idx[i]' > idx[i]

\* The descriptor lookup, driver.URLFor, the opening of a reader and
\* http.ServeContent are each called at most once by request i.
CalledOnce(i) ==
    \A op \in {"statter.Stat", "driver.URLFor", "newFileReader",
                "http.ServeContent"} :
        Cardinality(CallsTo(i, op)) <= 1

LookupOn(i) ==
    LET ks == CallsTo(i, "statter.Stat")
    IN IF ks = {} THEN <<>>
       ELSE SubSeq(calls[i], CHOOSE k \in ks : TRUE, Len(calls[i]))

\* The number of bytes of a file that reached the body of request i.
BytesRead(i) ==
    IF w[i].body = <<>> THEN 0 ELSE w[i].body[Len(w[i].body)].n

\* Requests i and j got the same results from the collaborators from the
\* lookup on, and their readers gave the same number of bytes.
SameResults(i, j) ==
    LookupOn(i) = LookupOn(j) /\ BytesRead(i) = BytesRead(j)

\* Request i opts in to transport compression with an empty
\* Accept-Encoding.
OptInEmpty(i) ==
    r[i].Compression = "enabled" /\ r[i].AcceptEncoding = <<>>

\* C11 as stated: driver.Stat of a sibling is called only for a request
\* that opts in; an opt-in request with an empty Accept-Encoding stats
\* nothing, goes on to the descriptor lookup and ends as a request without
\* the opt-in header does.
C11_EmptyListAsNoOptIn ==
    \A i \in Reqs :
        /\ CallsTo(i, "driver.Stat") # {} => r[i].Compression = "enabled"
        /\ (Done(i) /\ OptInEmpty(i)) =>
              /\ CallsTo(i, "driver.Stat") = {}
              /\ CallsTo(i, "statter.Stat") # {}
              /\ \A j \in Reqs :
                    (Done(j) /\ r[j].Compression = "" /\ SameResults(i, j)) =>
                        w[i] = w[j] /\ ret[i] = ret[j]

\* C11 amended: driver.Stat of a sibling is called only for a request that
\* opts in. An opt-in request with an empty Accept-Encoding for a digest
\* pathFn accepts stats nothing, reaches the descriptor lookup with the
\* response untouched and ends as a request without the opt-in header
\* does; for a malformed digest it returns pathFn's error with no lookup.
C11_Gated ==
    \A i \in Reqs :
        /\ CallsTo(i, "driver.Stat") # {} => r[i].Compression = "enabled"
        /\ (OptInEmpty(i) /\ pc[i] = "statter.Stat") =>
              /\ Untouched(i) /\ br[i].state = "none" /\ ret[i] = "pending"
              /\ \A k \in DOMAIN calls[i] : calls[i][k].op = "pathFn"
        /\ (Done(i) /\ OptInEmpty(i) /\ pathFn(dgst[i]).err = "nil") =>
              /\ CallsTo(i, "driver.Stat") = {}
              /\ CallsTo(i, "statter.Stat") # {}
              /\ \A j \in Reqs :
                    (Done(j) /\ r[j].Compression = "" /\ SameResults(i, j)) =>
                        w[i] = w[j] /\ ret[i] = ret[j]
        /\ (Done(i) /\ OptInEmpty(i) /\ pathFn(dgst[i]).err # "nil") =>
              /\ ret[i] = pathFn(dgst[i]).err
              /\ Untouched(i)
              /\ IOCalls(i) = {}

C11_Witness ==
    \E i, j \in Reqs :
        /\ Done(i) /\ OptInEmpty(i)
        /\ Done(j) /\ r[j].Compression = ""
        /\ SameResults(i, j)
        /\ w[i].status = 200
        /\ w[i].body = <<FileBytes(br[i].path, br[i].size)>>

\* No collaborator call of request i hit an I/O fault.
NoFault(i) ==
    /\ \A k \in DOMAIN calls[i] : calls[i][k].err \notin BackendErrors
    /\ ~ReadFailed(i)

\* Requests i and j are the same call: digest, request and the response
\* they were handed.
SameRequest(i, j) ==
    r[i] = r[j] /\ dgst[i] = dgst[j] /\ outer[i] = outer[j]

\* The body and the two identity headers of requests i and j are the same.
SameIdentity(i, j) ==
    /\ w[i].body = w[j].body
    /\ w[i].Header["ETag"] = w[j].Header["ETag"]
    /\ w[i].Header["Docker-Content-Digest"] =
          w[j].Header["Docker-Content-Digest"]

Local(j) ==
    <<r[j], dgst[j], outer[j], w[j], pc[j], accepted[j], idx[j], path[j],
      desc[j], size[j], br[j], ret[j], calls[j]>>

\* C20: in every interleaving of two requests a step writes nothing the
\* requests share and nothing of the other request; a reader is the one
\* its own request opened, and the body comes from it; and the result and
\* response of a request depend on the request and on what the
\* collaborators gave it, not on how the other request was interleaved.
C20_Isolated ==
    /\ [][/\ UNCHANGED <<redirect, statter, driver>>
          /\ \E i \in Reqs : \A j \in Reqs \ {i} : UNCHANGED Local(j)]_vars
    /\ [](\A i \in Reqs :
            /\ br[i].state # "none" =>
                  \E k \in CallsOf(i, "newFileReader", "nil") :
                      calls[i][k].path = br[i].path
            /\ \A k \in DOMAIN w[i].body :
                  w[i].body[k].file \in {<<>>, br[i].path}
            /\ (Done(i) /\ CallsTo(i, "http.ServeContent") # {}) =>
                  br[i].state = "closed")
    /\ [](\A i, j \in Reqs :
            (/\ Done(i) /\ Done(j) /\ SameRequest(i, j)
             /\ calls[i] = calls[j] /\ BytesRead(i) = BytesRead(j))
                => w[i] = w[j] /\ ret[i] = ret[j])

C20_Witness ==
    /\ Streamed(1)
    /\ w[1].body = <<FileBytes(br[1].path, br[1].size)>>
    /\ br[2].state = "open"
    /\ br[2].path = br[1].path

\* The calls of request i that hand a path to the storage driver.
DriverCalls(i) ==
    {k \in DOMAIN calls[i] :
        calls[i][k].op \in {"driver.Stat", "driver.URLFor", "newFileReader"}}

\* The directories pathFn gives for the digest of request i: the one of the
\* digest as requested and the one of its canonical digest.
BlobDirs(i) ==
    {Dir(pathFn(d).path) : d \in {dgst[i], Canonical(dgst[i])} \cap ValidDigests}

\* C16: every path ServeBlob hands to the storage driver, the candidate of
\* every turn of the range loop included, lies in the directory of the
\* canonical path pathFn gives for the digest, whatever the tokens of
\* Accept-Encoding and whatever candidates were tried before.
C16_PathsInBlobDir ==
    \A i \in Reqs :
        \A k \in DriverCalls(i) :
            Dir(calls[i][k].path) \in BlobDirs(i)

====
